---- MODULE Spec2Model ----
(***************************************************************************)
(* A model of complete_script_z.py: the Ricoh job-log collector.           *)
(*                                                                         *)
(* Text is modelled as a sequence of tokens.  A token is a run of          *)
(* characters: a word or phrase ("Log ID", "100"), one blank, one double   *)
(* quote, one comma, one dot.  Text is cut into tokens so that the phrases *)
(* the program looks for are whole tokens.  A line is a sequence of        *)
(* tokens, a file's content a sequence of lines (what readlines() returns, *)
(* without the line terminators), a CSV cell a sequence of tokens.  The    *)
(* string operations of the source (strip, lower, replace, startswith, in, *)
(* csv.reader) are defined on tokens.                                      *)
(***************************************************************************)
EXTENDS Integers, Sequences, FiniteSets, TLC

\* ------------------------------------------------------------------ bounds

\* Data rows after the header section of an export drawn by InitParse.
MaxRows == 3

\* The clock's last second: every download takes at least one.
MaxTime == 3

\* ------------------------------------------------------------------- text

SP == " "
QUOTE == "\""
COMMA == ","
DOT == "."
NL == "\n"

\* Python's None where a path or a digest is expected.
None == <<>>

(* A DataFrame's values: a string Str(cell), an integer, a timestamp, a    *)
(* float that is no integer, or Null (None, NaN, NaT, pd.NA).  A number    *)
(* and a timestamp keep the text they were read from.                      *)
Null == [k |-> "null", v |-> <<>>]
Str(cell) == [k |-> "str", v |-> cell]
Int64(cell) == [k |-> "int", v |-> cell]
Float(cell) == [k |-> "float", v |-> cell]
Timestamp(cell) == [k |-> "ts", v |-> cell]

\* str.lower() on a token: the words of the model that hold capital letters.
LowerTable ==
    [t \in {"Start Date/Time", "START DATE/TIME", "Log ID", "LOG ID", "LogID",
            "Created Pages", "Status", "User ID", "Download completed",
            "Job Log", "Ricoh", "MP", "End Date/Time", "Log Type", "Result",
            "Operation Method", "Cancelled: Details", "Host IP Address",
            "Source", "Print File Name", "Exit Pages", "Exit Papers",
            "Paper Size", "Paper Type"} |->
        CASE t = "Start Date/Time" -> "start date/time"
          [] t = "START DATE/TIME" -> "start date/time"
          [] t = "Log ID" -> "log id"
          [] t = "LOG ID" -> "log id"
          [] t = "LogID" -> "logid"
          [] t = "Created Pages" -> "created pages"
          [] t = "Status" -> "status"
          [] t = "User ID" -> "user id"
          [] t = "Download completed" -> "download completed"
          [] t = "Job Log" -> "job log"
          [] t = "Ricoh" -> "ricoh"
          [] t = "MP" -> "mp"
          [] t = "End Date/Time" -> "end date/time"
          [] t = "Log Type" -> "log type"
          [] t = "Result" -> "result"
          [] t = "Operation Method" -> "operation method"
          [] t = "Cancelled: Details" -> "cancelled: details"
          [] t = "Host IP Address" -> "host ip address"
          [] t = "Source" -> "source"
          [] t = "Print File Name" -> "print file name"
          [] t = "Exit Pages" -> "exit pages"
          [] t = "Exit Papers" -> "exit papers"
          [] t = "Paper Size" -> "paper size"
          [] t = "Paper Type" -> "paper type"]

LowerTok(t) == IF t \in DOMAIN LowerTable THEN LowerTable[t] ELSE t

\* str.lower()
Lower(s) == [i \in 1..Len(s) |-> LowerTok(s[i])]

\* str.replace('"', '')
RemoveQuotes(s) == SelectSeq(s, LAMBDA t : t # QUOTE)

IsSpace(t) == t \in {SP, NL}

RECURSIVE LStrip(_)
LStrip(s) == IF s # <<>> /\ IsSpace(Head(s)) THEN LStrip(Tail(s)) ELSE s

RECURSIVE RStrip(_)
RStrip(s) ==
    IF s # <<>> /\ IsSpace(s[Len(s)]) THEN RStrip(SubSeq(s, 1, Len(s) - 1)) ELSE s

\* str.strip()
Strip(s) == RStrip(LStrip(s))

\* str.startswith(word), for a word that is one token
StartsWith(s, word) == s # <<>> /\ Head(s) = word

\* word in str, for a word that is one token
Contains(s, word) == \E i \in 1..Len(s) : s[i] = word

RECURSIVE Join(_, _)
\* sep.join(parts)
Join(parts, sep) ==
    IF parts = <<>> THEN <<>>
    ELSE IF Len(parts) = 1 THEN parts[1]
    ELSE parts[1] \o <<sep>> \o Join(Tail(parts), sep)

\* '\n'.join(lines)
JoinLines(ls) == Join(ls, NL)

\* --------------------------------------------------------------- csv.reader

RECURSIVE CsvScan(_, _, _, _, _, _)
(* csv.reader over the text s from position i, in the default dialect     *)
(* (delimiter ',', quotechar '"', doublequote, not strict).  st is the     *)
(* reader's state, fld the field and row the record being collected, rows  *)
(* the records read so far.                                                *)
CsvScan(s, i, st, fld, row, rows) ==
    IF i > Len(s)
    THEN IF st = "start_record" THEN rows ELSE Append(rows, Append(row, fld))
    ELSE LET c == s[i] IN
        CASE st \in {"start_record", "start_field"} ->
               IF c = NL
               THEN IF st = "start_record"
                    THEN CsvScan(s, i + 1, "start_record", <<>>, <<>>, Append(rows, <<>>))
                    ELSE CsvScan(s, i + 1, "start_record", <<>>, <<>>,
                                 Append(rows, Append(row, <<>>)))
               ELSE IF c = QUOTE
               THEN CsvScan(s, i + 1, "in_quoted", <<>>, row, rows)
               ELSE IF c = COMMA
               THEN CsvScan(s, i + 1, "start_field", <<>>, Append(row, <<>>), rows)
               ELSE CsvScan(s, i + 1, "in_field", <<c>>, row, rows)
          [] st = "in_field" ->
               IF c = NL
               THEN CsvScan(s, i + 1, "start_record", <<>>, <<>>,
                            Append(rows, Append(row, fld)))
               ELSE IF c = COMMA
               THEN CsvScan(s, i + 1, "start_field", <<>>, Append(row, fld), rows)
               ELSE CsvScan(s, i + 1, "in_field", Append(fld, c), row, rows)
          [] st = "in_quoted" ->
               IF c = QUOTE
               THEN CsvScan(s, i + 1, "quote_in_quoted", fld, row, rows)
               ELSE CsvScan(s, i + 1, "in_quoted", Append(fld, c), row, rows)
          [] st = "quote_in_quoted" ->
               IF c = QUOTE
               THEN CsvScan(s, i + 1, "in_quoted", Append(fld, QUOTE), row, rows)
               ELSE IF c = COMMA
               THEN CsvScan(s, i + 1, "start_field", <<>>, Append(row, fld), rows)
               ELSE IF c = NL
               THEN CsvScan(s, i + 1, "start_record", <<>>, <<>>,
                            Append(rows, Append(row, fld)))
               ELSE CsvScan(s, i + 1, "in_field", Append(fld, c), row, rows)

\* list(csv.reader(StringIO(text)))
CsvReader(s) == CsvScan(s, 1, "start_record", <<>>, <<>>, <<>>)

\* ------------------------------------------------------------------ parser

Min(a, b) == IF a < b THEN a ELSE b

\* The canonical column names, in the order of rename_map.
Canonical ==
    <<"StartDateTime", "LogID", "EndDateTime", "LogType", "Result",
      "OperationMethod", "Status", "CancelledDetails", "UserID",
      "HostIPAddress", "Source", "PrintFileName", "CreatedPages", "ExitPages",
      "ExitPapers", "PaperSize", "PaperType">>

\* rename_map, read from the canonical name to the header's column name.
rename_map ==
    [c \in {Canonical[i] : i \in 1..Len(Canonical)} |->
        CASE c = "LogID" -> <<"Log ID">>
          [] c = "StartDateTime" -> <<"Start Date/Time">>
          [] c = "EndDateTime" -> <<"End Date/Time">>
          [] c = "LogType" -> <<"Log Type">>
          [] c = "Result" -> <<"Result">>
          [] c = "OperationMethod" -> <<"Operation Method">>
          [] c = "Status" -> <<"Status", SP>>
          [] c = "CancelledDetails" -> <<"Cancelled: Details">>
          [] c = "UserID" -> <<"User ID">>
          [] c = "HostIPAddress" -> <<"Host IP Address">>
          [] c = "Source" -> <<"Source">>
          [] c = "PrintFileName" -> <<"Print File Name">>
          [] c = "CreatedPages" -> <<"Created Pages">>
          [] c = "ExitPages" -> <<"Exit Pages">>
          [] c = "ExitPapers" -> <<"Exit Papers">>
          [] c = "PaperSize" -> <<"Paper Size">>
          [] c = "PaperType" -> <<"Paper Type">>]

Columns == DOMAIN rename_map \cup {"PrinterName"}

\* The marker test of one line.
IsMarker(line) == StartsWith(RemoveQuotes(Lower(Strip(line))), "start date/time")

\* A start index that takes the first line for the header.
CsvStartIndexFirst(lines) == IF lines = <<>> THEN 0 ELSE 1

\* csv_start_index, counted from 1; 0 when no line matches (the source's -1).
CsvStartIndex(lines) ==
    IF \E i \in 1..Len(lines) : IsMarker(lines[i])
    THEN CHOOSE i \in 1..Len(lines) :
            IsMarker(lines[i]) /\ \A j \in 1..(i - 1) : ~IsMarker(lines[j])
    ELSE 0

\* The filter of csv_lines: a line that is not blank and has no footer phrase.
KeepLine(line) == Strip(line) # <<>> /\ ~Contains(Lower(line), "download completed")

RECURSIVE CsvLinesFrom(_, _)
CsvLinesFrom(lines, i) ==
    IF i > Len(lines) THEN <<>>
    ELSE IF KeepLine(lines[i]) THEN <<Strip(lines[i])>> \o CsvLinesFrom(lines, i + 1)
    ELSE CsvLinesFrom(lines, i + 1)

\* A dict is a function; an empty dict is false.
Truthy(d) == DOMAIN d # {}

\* dict(zip(header, row)): the last value of a repeated column name stays.
NewEvent(header, row) ==
    LET n == Min(Len(header), Len(row)) IN
    [k \in {header[i] : i \in 1..n} |->
        row[CHOOSE i \in 1..n : header[i] = k /\ \A j \in 1..n : header[j] = k => j <= i]]

RECURSIVE MergeContinuationLastWins(_, _, _, _)
\* A continuation loop in which a later value replaces an earlier one.
MergeContinuationLastWins(ev, header, row, i) ==
    IF i > Min(Len(header), Len(row)) THEN ev
    ELSE IF row[i] # <<>>
    THEN MergeContinuationLastWins((header[i] :> row[i]) @@ ev, header, row, i + 1)
    ELSE MergeContinuationLastWins(ev, header, row, i + 1)

RECURSIVE MergeContinuation(_, _, _, _)
\* The loop of a continuation row, from column i.
MergeContinuation(ev, header, row, i) ==
    IF i > Min(Len(header), Len(row)) THEN ev
    ELSE IF row[i] # <<>> /\ (header[i] \notin DOMAIN ev \/ ev[header[i]] = <<>>)
    THEN MergeContinuation((header[i] :> row[i]) @@ ev, header, row, i + 1)
    ELSE MergeContinuation(ev, header, row, i + 1)

\* The test of a row that starts an event.
IsStartRow(row) == Len(row) > 1 /\ row[1] # <<>>

\* The event in the making is dropped.
FlushNothing(events, current) == events

\* lines 151 and 156: the event in the making joins the events.
Flush(events, current) == IF Truthy(current) THEN Append(events, current) ELSE events

RECURSIVE FoldRows(_, _, _, _, _)
\* The loop over the reader's rows and the flush after it.
FoldRows(header, rows, i, current, events) ==
    IF i > Len(rows) THEN Flush(events, current)
    ELSE IF IsStartRow(rows[i])
    THEN FoldRows(header, rows, i + 1, NewEvent(header, rows[i]), Flush(events, current))
    ELSE IF Truthy(current)
    THEN FoldRows(header, rows, i + 1,
                  MergeContinuation(current, header, rows[i], 1), events)
    ELSE FoldRows(header, rows, i + 1, current, events)

\* One row of df_cleaned: a column no event holds, or this event lacks, is null.
CleanRow(ev, printer_name) ==
    [c \in Columns |->
        IF c = "PrinterName" THEN Str(printer_name)
        ELSE IF rename_map[c] \in DOMAIN ev THEN Str(ev[rename_map[c]]) ELSE Null]

\* The parser on the lines read from the file.  <<>> is the empty DataFrame.
ParseLines(lines, printer_name) ==
    LET k == CsvStartIndex(lines) IN
    IF k = 0 THEN <<>>
    ELSE LET rows == CsvReader(JoinLines(CsvLinesFrom(lines, k))) IN
         IF rows = <<>> THEN <<>>
         ELSE LET events == FoldRows(rows[1], Tail(rows), 1, <<>>, <<>>) IN
              [i \in 1..Len(events) |-> CleanRow(events[i], printer_name)]

\* -------------------------------------------------------------- the state

\* The orchestrator instances (operating-system processes).
Procs == {1, 2}

VARIABLES
    now,            \* the clock, in seconds: time.time(), datetime.now()
    fs,             \* the file system: path -> [content, readable]
    mainTable,      \* the committed rows of the main table, in insertion order
    staging,        \* the staging tables that exist: name -> rows
    pc,             \* where each instance is
    idx,            \* the index in config['printers'] of the printer in process
    log_file,       \* the path download_printer_log returned, or Null
    parsed_df,      \* the parser's batch
    df,             \* the normalized batch of the merge in progress
    staging_table,  \* the staging table's name of the merge in progress
    new_rows_df,    \* the difference query's result
    txn,            \* the rows appended to the main table and not yet committed
    new_rows,       \* the merge's return value
    call,           \* history: the merge call in progress or last finished
    prev,           \* history: the merge call that returned before it
    trace,          \* history: the calls made for the printer in process
    deleted,        \* history: the paths safe_delete was called on in this run
    processed,      \* history: the exports parsed so far, as <<printer, content>>
    retained        \* history: the paths kept after a merge returned -1, while
                    \* no acquisition and no store operation has failed since

vars ==
    <<now, fs, mainTable, staging, pc, idx, log_file, parsed_df, df, staging_table,
      new_rows_df, txn, new_rows, call, prev, trace, deleted, processed, retained>>

storeVars == <<mainTable, staging, df, staging_table, new_rows_df, txn, new_rows, call, prev>>

\* --------------------------------------------------------- configuration

\* config['printers']: the model of each printer.
Printers == << <<"MP", "-", "C1">>, <<"MP", "-", "C2">> >>

\* settings['printer_name_prefix']
printer_name_prefix == <<"Ricoh">>

\* printer_id of main's loop
PrinterId(i) == printer_name_prefix \o <<"_">> \o Printers[i]

\* download_dir and destination_path of download_printer_log: the directory
\* is named by the model, the file by the second and the model.
DownloadDir(i) == Printers[i] \o <<"_logs">>

\* A destination path of one fixed name in one directory.
DestinationPathFixed(i, t) == <<DownloadDir(1), <<0>> \o printer_name_prefix \o Printers[1]>>

DestinationPath(i, t) == <<DownloadDir(i), <<t>> \o printer_name_prefix \o Printers[i]>>

\* printer_name.lower().replace('-', '_')
StagingSuffix(name) == [k \in 1..Len(name) |-> IF name[k] = "-" THEN "_" ELSE LowerTok(name[k])]

\* staging_table of process_and_insert_logs_via_staging
StagingTable(name, t) == <<"staging_">> \o StagingSuffix(name) \o <<"_", t>>

\* ------------------------------------------------------------ file system

block_size == 65536

File(content) == [content |-> content, readable |-> TRUE]

\* The bytes of a file: its lines and the terminators between them.
Bytes(content) == JoinLines(content)

RECURSIVE Sha1Blocks(_, _)
\* The loop of compute_sha1: sha1.update on each block read.  The digest's
\* state is the text hashed so far: SHA-1 is taken to be free of collisions.
Sha1Blocks(bytes, state) ==
    IF bytes = <<>> THEN state
    ELSE LET n == Min(block_size, Len(bytes)) IN
         Sha1Blocks(SubSeq(bytes, n + 1, Len(bytes)), state \o SubSeq(bytes, 1, n))

\* compute_sha1: the digest, or None when the file cannot be read.
compute_sha1(path, files) ==
    IF path \in DOMAIN files /\ files[path].readable
    THEN <<"sha1", Sha1Blocks(Bytes(files[path].content), <<>>)>>
    ELSE None

\* os.listdir(log_directory), as paths
ListDir(dir, files) == {q \in DOMAIN files : q[1] = dir}

\* A test of identity that never answers yes.
SameFileNever(a, b) == FALSE

\* os.path.samefile
SameFile(a, b) == a = b

is_duplicate(new_file_path, log_directory, files) ==
    LET new_file_hash == compute_sha1(new_file_path, files) IN
    IF new_file_hash = None THEN FALSE
    ELSE \E existing \in ListDir(log_directory, files) :
            /\ ~SameFile(new_file_path, existing)
            /\ new_file_hash = compute_sha1(existing, files)

\* os.remove
Remove(path, files) == [q \in DOMAIN files \ {path} |-> files[q]]

\* ----------------------------------------------------------- normalization

\* Words of digits, and those of zeros alone.
DigitWords == {"0", "3", "5", "7", "100", "200", "300"}
ZeroWords == {"0"}

\* Date-time texts pd.to_datetime parses.
T1 == "2024-01-01 10:00"
T2 == "2024-01-02 11:30"
DateTimeWords == {T1, T2}

\* pd.to_numeric(errors='coerce') on one value: an integer text is an
\* integer, a decimal text a float, anything else NaN.
ToNumeric(x) ==
    IF x.k # "str" THEN Null
    ELSE IF Len(x.v) = 1 /\ x.v[1] \in DigitWords THEN Int64(x.v)
    ELSE IF Len(x.v) = 3 /\ x.v[1] \in DigitWords /\ x.v[2] = DOT /\ x.v[3] \in DigitWords
    THEN IF x.v[3] \in ZeroWords THEN Int64(<<x.v[1]>>) ELSE Float(x.v)
    ELSE Null

\* pd.to_datetime(errors='coerce') on one value
ToDatetime(x) ==
    IF x.k = "str" /\ Len(x.v) = 1 /\ x.v[1] \in DateTimeWords THEN Timestamp(x.v) ELSE Null

NumericColumns == {"CreatedPages", "ExitPages", "ExitPapers"}
DatetimeColumns == {"StartDateTime", "EndDateTime"}
KeyColumns == {"LogID", "PrinterName", "StartDateTime"}

\* .astype('Int64') raises TypeError on a column that holds a float that is
\* no integer.
AsTypeRaises(batch) ==
    \E i \in 1..Len(batch) : \E c \in NumericColumns : ToNumeric(batch[i][c]).k = "float"

Coerce(row) ==
    [c \in Columns |->
        IF c \in NumericColumns THEN ToNumeric(row[c])
        ELSE IF c \in DatetimeColumns THEN ToDatetime(row[c])
        ELSE row[c]]

\* df.dropna(subset=['LogID', 'PrinterName', 'StartDateTime'])
DropNa(batch) == SelectSeq(batch, LAMBDA r : \A c \in KeyColumns : r[c] # Null)

\* The batch after lines 172-177, when astype does not raise.
Normalize(batch) == DropNa([i \in 1..Len(batch) |-> Coerce(batch[i])])

\* ------------------------------------------------------------------- store

Key(r) == <<r["LogID"], r["PrinterName"], r["StartDateTime"]>>

\* Difference without the join: every staging row counts as new.
DifferenceNoJoin(st, mt) == st

\* The difference query: the staging rows the LEFT JOIN pairs with no row of
\* the main table.
Difference(st, mt) == SelectSeq(st, LAMBDA r : \A j \in 1..Len(mt) : Key(mt[j]) # Key(r))

\* A drop that leaves the table in place.
DropTableKeeps(name, tables) == tables

\* DROP TABLE IF EXISTS
DropTable(name, tables) == [t \in DOMAIN tables \ {name} |-> tables[t]]

\* to_sql(if_exists='replace') of the staging table
ReplaceTable(name, rows, tables) == (name :> rows) @@ tables

\* A commit that stores nothing.
CommittedNothing(mt, appended) == mt

\* trans.commit(): the appended rows become rows of the main table.
Committed(mt, appended) == mt \o appended

\* A rollback that leaves the rows appended before the failure in place.
RolledBackPartial(mt, appended) == mt \o appended

\* trans.rollback(): the main table without the appended rows.
RolledBack(mt, appended) == mt

NoCall == [batch |-> <<>>, before |-> <<>>, after |-> <<>>, failed |-> "none",
           state |-> "none", ret |-> 0]

\* ----------------------------------------------------------------- exports

\* A line of cells
Csv(cells) == Join(cells, COMMA)

LPre == <<"Job Log">>
LHdr == Csv(<< <<"Start Date/Time">>, <<"Log ID">>, <<"Created Pages">> >>)
LHdrQ == Csv(<< <<QUOTE, "START DATE/TIME", QUOTE>>, <<QUOTE, "LOG ID", QUOTE>>,
                <<QUOTE, "Created Pages", QUOTE>> >>)
LHdrW == Csv(<< <<"Start Date/Time">>, <<SP, "Log ID">>, <<"Status">> >>)
LMarker == <<"Start Date/Time">>
LHdr8 == Csv(<< <<"LogID">>, <<"Start Date/Time">>, <<"Created Pages">> >>)

R1 == Csv(<< <<QUOTE, T1, QUOTE>>, <<QUOTE, "100", QUOTE>>, <<QUOTE, "5", QUOTE>> >>)
R1b == Csv(<< <<T1>>, <<"100">>, <<"7">> >>)
R2 == Csv(<< <<T2>>, <<>>, <<"abc">> >>)
R3 == Csv(<< <<T2>>, <<"200">>, <<"abc">> >>)
R4 == Csv(<< <<T2>>, <<"200">>, <<"3", DOT, "5">> >>)
R5 == Csv(<< <<"abc">>, <<"100">>, <<"5">> >>)
R8 == Csv(<< <<"100">>, <<T1>>, <<"5">> >>)
K1 == Csv(<< <<>>, <<"200">>, <<"7">> >>)
K2 == Csv(<< <<>>, <<"300">>, <<>> >>)
S1 == <<"x">>
FT == <<"Download completed", DOT>>
DF == Csv(<< <<T2>>, <<"100">>, <<"download completed">> >>)
BL == <<SP, SP>>

\* The header sections and the data lines InitParse draws an export from.
Heads == {<<LPre>>, <<LPre, LHdr>>, <<LHdrQ>>, <<LHdrW>>, <<LMarker, LHdr8>>}
BodyLines == {R1, R2, K1, K2, S1, FT, DF, BL, R8}
Bodies == UNION {[1..n -> BodyLines] : n \in 0..MaxRows}
ParseExports == {h \o b : h \in Heads, b \in Bodies}

\* The exports a device returns in Spec.
XNone == <<LPre>>
XOne == <<LPre, LHdr, R1, R3, FT>>
XDup == <<LHdr, R1, R1b>>
XFrac == <<LHdr, R4>>
XBad == <<LHdr, R5>>
DeviceExports == {XNone, XOne, XDup, XFrac, XBad}

\* ------------------------------------------------------------ orchestrator

Log(p, what) == trace' = [trace EXCEPT ![p] = Append(@, what)]

Goto(p, label) == pc' = [pc EXCEPT ![p] = label]

\* The step of instance p is a failed acquisition (line 130), a failed
\* connection to the store (line 211), or a failed step of the merge.
Fault(p) ==
    \/ pc[p] = "download" /\ log_file'[p] = None
    \/ pc[p] \in {"idle", "done", "crashed"} /\ pc'[p] = "done"
    \/ call'[p].failed \notin {call[p].failed, "none"}

\* The history of instance p's step: the export line 225 hands to the parser
\* and the parser reads, and the file line 234 keeps.
Hist(p) ==
    /\ processed' =
          IF pc[p] = "parse" /\ log_file[p] \in DOMAIN fs /\ fs[log_file[p]].readable
          THEN Append(processed, <<idx[p], fs[log_file[p]].content>>)
          ELSE processed
    /\ retained' =
          IF Fault(p) THEN {}
          ELSE IF pc[p] = "after_merge" /\ new_rows[p] < 0 THEN retained \cup {log_file[p]}
          ELSE retained

\* main, lines 202-211: the configuration is loaded and the connection to
\* the store tried; without it the run ends before any printer.
StartRun(p) ==
    /\ pc[p] \in {"idle", "done", "crashed"}
    /\ now < MaxTime
    /\ \/ /\ Goto(p, "download")
          /\ idx' = [idx EXCEPT ![p] = 1]
       \/ /\ Goto(p, "done")
          /\ UNCHANGED idx
    /\ log_file' = [log_file EXCEPT ![p] = None]
    /\ parsed_df' = [parsed_df EXCEPT ![p] = <<>>]
    /\ trace' = [trace EXCEPT ![p] = <<>>]
    /\ deleted' = [deleted EXCEPT ![p] = <<>>]
    /\ UNCHANGED <<now, fs>>
    /\ UNCHANGED storeVars
    /\ Hist(p)

\* download_printer_log: the export is saved under a name of this second, or
\* the download fails and the printer is skipped (line 239).
Download(p) ==
    /\ pc[p] = "download"
    /\ now < MaxTime
    /\ now' = now + 1
    /\ trace' = [trace EXCEPT ![p] = <<"download">>]
    /\ parsed_df' = [parsed_df EXCEPT ![p] = <<>>]
    /\ \/ \E content \in DeviceExports :
            LET path == DestinationPath(idx[p], now') IN
            /\ fs' = (path :> File(content)) @@ fs
            /\ log_file' = [log_file EXCEPT ![p] = path]
            /\ Goto(p, "is_duplicate")
       \/ /\ log_file' = [log_file EXCEPT ![p] = None]
          /\ Goto(p, "next")
          /\ UNCHANGED fs
    /\ UNCHANGED <<idx, deleted>>
    /\ UNCHANGED storeVars
    /\ Hist(p)

\* main, lines 219-220
IsDuplicate(p) ==
    /\ pc[p] = "is_duplicate"
    /\ IF log_file[p] # None /\ log_file[p] \in DOMAIN fs
       THEN /\ Log(p, "is_duplicate")
            /\ IF is_duplicate(log_file[p], log_file[p][1], fs)
               THEN Goto(p, "delete_duplicate")
               ELSE Goto(p, "parse")
       ELSE /\ Goto(p, "next")
            /\ UNCHANGED trace
    /\ UNCHANGED <<now, fs, idx, log_file, parsed_df, deleted>>
    /\ UNCHANGED storeVars
    /\ Hist(p)

\* safe_delete, called on lines 221, 232 and 237: os.remove raises OSError,
\* which is caught, when the file is not there.
SafeDelete(p) ==
    /\ pc[p] \in {"delete_duplicate", "delete_processed", "delete_empty"}
    /\ fs' = IF log_file[p] \in DOMAIN fs THEN Remove(log_file[p], fs) ELSE fs
    /\ deleted' = [deleted EXCEPT ![p] = Append(@, log_file[p])]
    /\ Log(p, "safe_delete")
    /\ Goto(p, "next")
    /\ UNCHANGED <<now, idx, log_file, parsed_df>>
    /\ UNCHANGED storeVars
    /\ Hist(p)

\* parse_and_clean_ricoh_log and the test of line 227.  A file that is not
\* there reads as an empty batch; one that cannot be read raises.
Parse(p) ==
    /\ pc[p] = "parse"
    /\ Log(p, "parse")
    /\ IF log_file[p] \notin DOMAIN fs
       THEN /\ parsed_df' = [parsed_df EXCEPT ![p] = <<>>]
            /\ Goto(p, "delete_empty")
       ELSE IF ~fs[log_file[p]].readable
       THEN /\ Goto(p, "crashed")
            /\ UNCHANGED parsed_df
       ELSE LET batch == ParseLines(fs[log_file[p]].content, PrinterId(idx[p])) IN
            /\ parsed_df' = [parsed_df EXCEPT ![p] = batch]
            /\ Goto(p, IF batch = <<>> THEN "delete_empty" ELSE "merge")
    /\ UNCHANGED <<now, fs, idx, log_file, deleted>>
    /\ UNCHANGED storeVars
    /\ Hist(p)

\* The for loop of line 213: the next printer, or the end of the run.
NextPrinter(p) ==
    /\ pc[p] = "next"
    /\ IF idx[p] < Len(Printers)
       THEN /\ idx' = [idx EXCEPT ![p] = @ + 1]
            /\ Goto(p, "download")
       ELSE /\ Goto(p, "done")
            /\ UNCHANGED idx
    /\ UNCHANGED <<now, fs, log_file, parsed_df, trace, deleted>>
    /\ UNCHANGED storeVars
    /\ Hist(p)

\* ------------------------------------------------------------------- merge

orchVars == <<now, fs, idx, log_file, parsed_df, deleted>>

\* The call's record when an exception leaves the merge at `step`.
Raised(c, step) ==
    [c EXCEPT !.state = "raised", !.failed = IF c.failed = "none" THEN step ELSE c.failed]

\* The call's record when the merge returns `value`.
Returned(c, value, mt) == [c EXCEPT !.state = "returned", !.ret = value, !.after = mt]

\* process_and_insert_logs_via_staging, lines 170-179: the staging table's
\* name, the normalization, and the early returns.
MergeEnter(p) ==
    /\ pc[p] = "merge"
    /\ staging_table' = [staging_table EXCEPT ![p] = StagingTable(PrinterId(idx[p]), now)]
    /\ prev' = [prev EXCEPT ![p] = IF call[p].state = "returned" THEN call[p] ELSE NoCall]
    /\ LET c == [NoCall EXCEPT !.batch = parsed_df[p], !.before = mainTable,
                               !.after = mainTable, !.state = "running"] IN
       IF parsed_df[p] # <<>> /\ AsTypeRaises(parsed_df[p])
       THEN /\ call' = [call EXCEPT ![p] = Raised(c, "astype")]
            /\ trace' = [trace EXCEPT ![p] = Append(@, "merge")]
            /\ Goto(p, "crashed")
            /\ UNCHANGED <<df, new_rows>>
       ELSE IF parsed_df[p] = <<>> \/ Normalize(parsed_df[p]) = <<>>
       THEN /\ call' = [call EXCEPT ![p] = Returned(c, 0, mainTable)]
            /\ new_rows' = [new_rows EXCEPT ![p] = 0]
            /\ trace' = [trace EXCEPT ![p] = @ \o <<"merge", "merge_return">>]
            /\ Goto(p, "after_merge")
            /\ UNCHANGED df
       ELSE /\ call' = [call EXCEPT ![p] = c]
            /\ df' = [df EXCEPT ![p] = Normalize(parsed_df[p])]
            /\ trace' = [trace EXCEPT ![p] = Append(@, "merge")]
            /\ Goto(p, "connect")
            /\ UNCHANGED new_rows
    /\ UNCHANGED <<mainTable, staging, new_rows_df, txn>>
    /\ UNCHANGED orchVars
    /\ Hist(p)

\* lines 180-181: db_engine.connect() and conn.begin(), outside the try: a
\* failure of either leaves the merge as an exception.
Connect(p) ==
    /\ pc[p] \in {"connect", "begin"}
    /\ \/ /\ Goto(p, IF pc[p] = "connect" THEN "begin" ELSE "to_sql_staging")
          /\ UNCHANGED call
       \/ /\ call' = [call EXCEPT ![p] = Raised(@, pc[p])]
          /\ Goto(p, "crashed")
    /\ UNCHANGED <<mainTable, staging, df, staging_table, new_rows_df, txn, prev,
                   new_rows, trace>>
    /\ UNCHANGED orchVars
    /\ Hist(p)

\* line 183: the staging table is replaced by the batch; a failure comes
\* before the table is created or after it.
ToSqlStaging(p) ==
    /\ pc[p] = "to_sql_staging"
    /\ \/ /\ staging' = ReplaceTable(staging_table[p], df[p], staging)
          /\ Goto(p, "read_sql")
          /\ UNCHANGED call
       \/ /\ staging' \in {staging, ReplaceTable(staging_table[p], <<>>, staging)}
          /\ call' = [call EXCEPT ![p].failed = "to_sql_staging"]
          /\ Goto(p, "rollback")
    /\ UNCHANGED <<mainTable, df, staging_table, new_rows_df, txn, prev, new_rows, trace>>
    /\ UNCHANGED orchVars
    /\ Hist(p)

\* lines 184-187: the difference query and the count of its rows
ReadSql(p) ==
    /\ pc[p] = "read_sql"
    /\ \/ /\ staging_table[p] \in DOMAIN staging
          /\ LET rows == Difference(staging[staging_table[p]], mainTable) IN
             /\ new_rows_df' = [new_rows_df EXCEPT ![p] = rows]
             /\ Goto(p, IF Len(rows) > 0 THEN "to_sql_main" ELSE "commit")
          /\ UNCHANGED call
       \/ /\ call' = [call EXCEPT ![p].failed = "read_sql"]
          /\ Goto(p, "rollback")
          /\ UNCHANGED new_rows_df
    /\ UNCHANGED <<mainTable, staging, df, staging_table, txn, prev, new_rows, trace>>
    /\ UNCHANGED orchVars
    /\ Hist(p)

\* line 189: the new rows are appended in the transaction; a failure comes
\* after any number of them.
ToSqlMain(p) ==
    /\ pc[p] = "to_sql_main"
    /\ \/ /\ txn' = [txn EXCEPT ![p] = new_rows_df[p]]
          /\ Goto(p, "commit")
          /\ UNCHANGED call
       \/ \E k \in 0..(Len(new_rows_df[p]) - 1) :
            /\ txn' = [txn EXCEPT ![p] = SubSeq(new_rows_df[p], 1, k)]
            /\ call' = [call EXCEPT ![p].failed = "to_sql_main"]
            /\ Goto(p, "rollback")
    /\ UNCHANGED <<mainTable, staging, df, staging_table, new_rows_df, prev, new_rows, trace>>
    /\ UNCHANGED orchVars
    /\ Hist(p)

\* line 192: trans.commit()
Commit(p) ==
    /\ pc[p] = "commit"
    /\ \/ /\ mainTable' = Committed(mainTable, txn[p])
          /\ txn' = [txn EXCEPT ![p] = <<>>]
          /\ Goto(p, "finally")
          /\ UNCHANGED call
       \/ /\ call' = [call EXCEPT ![p].failed = "commit"]
          /\ Goto(p, "rollback")
          /\ UNCHANGED <<mainTable, txn>>
    /\ UNCHANGED <<staging, df, staging_table, new_rows_df, prev, new_rows, trace>>
    /\ UNCHANGED orchVars
    /\ Hist(p)

\* line 194: trans.rollback(), and -1 is what the merge will return
Rollback(p) ==
    /\ pc[p] = "rollback"
    /\ mainTable' = RolledBack(mainTable, txn[p])
    /\ txn' = [txn EXCEPT ![p] = <<>>]
    /\ Goto(p, "finally")
    /\ UNCHANGED <<staging, df, staging_table, new_rows_df, prev, new_rows, trace, call>>
    /\ UNCHANGED orchVars
    /\ Hist(p)

\* The value the merge returns once the finally clause is done: -1 from the
\* handler of line 194, inserted_count from line 197.
ReturnValue(c, inserted_count) == IF c.failed = "none" THEN inserted_count ELSE -1

\* lines 195-197: the staging table is dropped and the merge returns; a
\* failure of the DROP leaves the merge as an exception.
Finally(p) ==
    /\ pc[p] = "finally"
    /\ \/ /\ staging' = DropTable(staging_table[p], staging)
          /\ LET value == ReturnValue(call[p], Len(new_rows_df[p])) IN
             /\ new_rows' = [new_rows EXCEPT ![p] = value]
             /\ call' = [call EXCEPT ![p] = Returned(@, value, mainTable)]
          /\ trace' = [trace EXCEPT ![p] = Append(@, "merge_return")]
          /\ Goto(p, "after_merge")
       \/ /\ call' = [call EXCEPT ![p] = Raised(@, "drop")]
          /\ Goto(p, "crashed")
          /\ UNCHANGED <<staging, new_rows, trace>>
    /\ df' = [df EXCEPT ![p] = <<>>]
    /\ new_rows_df' = [new_rows_df EXCEPT ![p] = <<>>]
    /\ UNCHANGED <<mainTable, staging_table, txn, prev>>
    /\ UNCHANGED orchVars
    /\ Hist(p)

\* main, lines 230-234: the file is deleted unless the merge returned -1.
AfterMerge(p) ==
    /\ pc[p] = "after_merge"
    /\ Goto(p, IF new_rows[p] >= 0 THEN "delete_processed" ELSE "next")
    /\ UNCHANGED <<trace>>
    /\ UNCHANGED orchVars
    /\ UNCHANGED storeVars
    /\ Hist(p)

\* ---------------------------------------------------------- specifications

\* The store is empty and no merge has been called.
InitStore ==
    /\ mainTable = <<>>
    /\ staging = <<>>
    /\ idx = [p \in Procs |-> 1]
    /\ parsed_df = [p \in Procs |-> <<>>]
    /\ df = [p \in Procs |-> <<>>]
    /\ staging_table = [p \in Procs |-> None]
    /\ new_rows_df = [p \in Procs |-> <<>>]
    /\ txn = [p \in Procs |-> <<>>]
    /\ new_rows = [p \in Procs |-> 0]
    /\ call = [p \in Procs |-> NoCall]
    /\ prev = [p \in Procs |-> NoCall]
    /\ deleted = [p \in Procs |-> <<>>]
    /\ processed = <<>>
    /\ retained = {}

\* Instance 1 stands at `label` of main with the file `path`; instance 2 is idle.
InitAt(label, path) ==
    /\ pc = [p \in Procs |-> IF p = 1 THEN label ELSE "idle"]
    /\ log_file = [p \in Procs |-> IF p = 1 THEN path ELSE None]
    /\ trace = [p \in Procs |-> IF p = 1 /\ path # None THEN <<"download">> ELSE <<>>]

Init ==
    /\ now = 0
    /\ fs = <<>>
    /\ InitAt("idle", None)
    /\ InitStore

Step(p) ==
    \/ StartRun(p)
    \/ Download(p)
    \/ IsDuplicate(p)
    \/ SafeDelete(p)
    \/ Parse(p)
    \/ NextPrinter(p)
    \/ MergeEnter(p)
    \/ Connect(p)
    \/ ToSqlStaging(p)
    \/ ReadSql(p)
    \/ ToSqlMain(p)
    \/ Commit(p)
    \/ Rollback(p)
    \/ Finally(p)
    \/ AfterMerge(p)

\* One orchestrator instance: the design of the program.
Next == Step(1)

Spec == Init /\ [][Next]_vars

(* The parser alone: instance 1 has downloaded an export drawn from        *)
(* ParseExports, found it no duplicate, and parses it.                     *)
InitParse ==
    /\ now = 1
    /\ \E content \in ParseExports : fs = (DestinationPath(1, 1) :> File(content))
    /\ InitAt("parse", DestinationPath(1, 1))
    /\ InitStore

NextParse == Parse(1)

SpecParse == InitParse /\ [][NextParse]_vars

(* The duplicate check alone: instance 1 has downloaded DupCandidate into  *)
(* a directory that holds any of the files of DupFiles, readable or not,   *)
(* under the other paths of DupPaths; one path is of another directory.    *)
DupCandidate == DestinationPath(1, 3)
DupPaths == {DestinationPath(1, 1), DestinationPath(1, 2), DupCandidate, DestinationPath(2, 1)}
DupA == <<LHdr, R1b>>
DupB == <<LHdr, Csv(<< <<T1>>, <<"100">>, <<"5">> >>)>>
DupFiles == {[content |-> c, readable |-> r] : c \in {DupA, DupB, <<>>}, r \in BOOLEAN}

InitDup ==
    /\ now = 3
    /\ \E D \in SUBSET DupPaths :
         /\ DupCandidate \in D
         /\ fs \in [D -> DupFiles]
    /\ InitAt("is_duplicate", DupCandidate)
    /\ InitStore

NextDup == IsDuplicate(1)

SpecDup == InitDup /\ [][NextDup]_vars

(* The merge alone: instance 1 has downloaded and parsed an export of      *)
(* MergeExports and calls the merge, on a main table that is empty or      *)
(* holds the rows of an earlier export.                                    *)
XNoId == <<LHdr, R2>>
MergeExports == {XOne, XDup, XFrac, XBad, XNoId}

InitMerge ==
    /\ now = 1
    /\ \E x \in MergeExports :
         /\ fs = (DestinationPath(1, 1) :> File(x))
         /\ parsed_df = [p \in Procs |-> IF p = 1 THEN ParseLines(x, PrinterId(1)) ELSE <<>>]
    /\ mainTable \in {<<>>, Normalize(ParseLines(XOne, PrinterId(1))),
                      Normalize(ParseLines(XDup, PrinterId(1)))}
    /\ pc = [p \in Procs |-> IF p = 1 THEN "merge" ELSE "idle"]
    /\ log_file = [p \in Procs |-> IF p = 1 THEN DestinationPath(1, 1) ELSE None]
    /\ trace = [p \in Procs |-> IF p = 1 THEN <<"download", "is_duplicate", "parse">> ELSE <<>>]
    /\ idx = [p \in Procs |-> 1]
    /\ staging = <<>>
    /\ df = [p \in Procs |-> <<>>]
    /\ staging_table = [p \in Procs |-> None]
    /\ new_rows_df = [p \in Procs |-> <<>>]
    /\ txn = [p \in Procs |-> <<>>]
    /\ new_rows = [p \in Procs |-> 0]
    /\ call = [p \in Procs |-> NoCall]
    /\ prev = [p \in Procs |-> NoCall]
    /\ deleted = [p \in Procs |-> <<>>]
    /\ processed = <<>>
    /\ retained = {}

(* Two orchestrator instances, started apart from each other (two          *)
(* processes, for the same printers or for different ones), in their       *)
(* merges: instance 1 has saved its export in second 0 and instance 2 in   *)
(* second 1, each has parsed it, and both call the merge from second 1 on. *)
ConcExports == {XOne}

InitConc ==
    /\ now = 1
    /\ \E i \in [Procs -> 1..Len(Printers)], x \in [Procs -> ConcExports] :
         /\ idx = i
         /\ log_file = [p \in Procs |-> DestinationPath(i[p], p - 1)]
         /\ fs = [q \in {DestinationPath(i[p], p - 1) : p \in Procs} |->
                    File(x[CHOOSE p \in Procs : DestinationPath(i[p], p - 1) = q])]
         /\ parsed_df = [p \in Procs |-> ParseLines(x[p], PrinterId(i[p]))]
    /\ pc = [p \in Procs |-> "merge"]
    /\ trace = [p \in Procs |-> <<"download", "is_duplicate", "parse">>]
    /\ mainTable = <<>>
    /\ staging = <<>>
    /\ df = [p \in Procs |-> <<>>]
    /\ staging_table = [p \in Procs |-> None]
    /\ new_rows_df = [p \in Procs |-> <<>>]
    /\ txn = [p \in Procs |-> <<>>]
    /\ new_rows = [p \in Procs |-> 0]
    /\ call = [p \in Procs |-> NoCall]
    /\ prev = [p \in Procs |-> NoCall]
    /\ deleted = [p \in Procs |-> <<>>]
    /\ processed = <<>>
    /\ retained = {}

\* A second passes on the clock that time.time() reads on line 171.
Tick ==
    /\ now < MaxTime
    /\ now' = now + 1
    /\ UNCHANGED <<fs, pc, idx, log_file, parsed_df, trace, deleted, processed, retained>>
    /\ UNCHANGED storeVars

MergeStep(p) ==
    \/ MergeEnter(p)
    \/ Connect(p)
    \/ ToSqlStaging(p)
    \/ ReadSql(p)
    \/ ToSqlMain(p)
    \/ Commit(p)
    \/ Rollback(p)
    \/ Finally(p)
    \/ AfterMerge(p)

NextMerge == MergeStep(1)

SpecMerge == InitMerge /\ [][NextMerge]_vars

NextConc == Tick \/ \E p \in Procs : MergeStep(p)

SpecConc == InitConc /\ [][NextConc]_vars

\* ------------------------------------------------------------------ claims

Range(q) == {q[i] : i \in 1..Len(q)}

(* C1: when the merge is called twice in a row with the same batch, with   *)
(* no failure of the store in either call and no other write to the main  *)
(* table in between, the first call returns n >= 0, the second returns 0,  *)
(* and the main table has as many rows after the second call as after the *)
(* first.                                                                  *)
C1_SameBatchTwice(p) ==
    /\ call[p].state = "returned" /\ call[p].failed = "none"
    /\ prev[p].state = "returned" /\ prev[p].failed = "none"
    /\ prev[p].batch = call[p].batch
    /\ call[p].before = prev[p].after

C1_Idempotent ==
    \A p \in Procs :
        C1_SameBatchTwice(p) =>
            /\ prev[p].ret >= 0
            /\ call[p].ret = 0
            /\ Len(call[p].after) = Len(prev[p].after)

\* The first call inserted rows, and the second has returned.
C1_Witness == \E p \in Procs : C1_SameBatchTwice(p) /\ prev[p].ret > 0 /\ pc[p] = "after_merge"

(* C2: no two rows of the main table share the composite key (LogID,       *)
(* PrinterName, StartDateTime).                                            *)
C2_KeysUnique ==
    \A i, j \in 1..Len(mainTable) : i # j => Key(mainTable[i]) # Key(mainTable[j])

(* C3: when the append to the main table fails, the merge returns -1, the  *)
(* main table is what it was when the merge began, and the staging table   *)
(* of the merge no longer exists.                                          *)
C3_AppendFailed(p) == call[p].state = "returned" /\ call[p].failed = "to_sql_main"

C3_Atomic ==
    \A p \in Procs :
        C3_AppendFailed(p) =>
            /\ call[p].ret = -1
            /\ call[p].after = call[p].before
            /\ pc[p] = "after_merge" => mainTable = call[p].before
            /\ staging_table[p] \notin DOMAIN staging

\* The append failed on a batch of several new rows, and the merge returned.
C3_Witness ==
    \E p \in Procs :
        /\ C3_AppendFailed(p) /\ pc[p] = "after_merge"
        /\ Len(Difference(Normalize(call[p].batch), call[p].before)) > 1

(* C4 (as claimed): is_duplicate answers yes exactly when a file of the    *)
(* directory other than the new file has the new file's content.          *)
C4_Answered(p) == pc[p] \in {"delete_duplicate", "parse"}

C4_Others(p) == {q \in DOMAIN fs : q[1] = log_file[p][1] /\ q # log_file[p]}

C4_Original ==
    \A p \in Procs :
        C4_Answered(p) =>
            (pc[p] = "delete_duplicate" <=>
                \E q \in C4_Others(p) : fs[q].content = fs[log_file[p]].content)

(* C4 (amended): is_duplicate answers yes exactly when the new file can be *)
(* read and a file of the directory other than the new file can be read    *)
(* and has the new file's content; the new file is never its own           *)
(* duplicate, and a file that differs in one byte is none.                 *)
C4_Amended ==
    \A p \in Procs :
        C4_Answered(p) =>
            (pc[p] = "delete_duplicate" <=>
                /\ fs[log_file[p]].readable
                /\ \E q \in C4_Others(p) :
                      fs[q].readable /\ fs[q].content = fs[log_file[p]].content)

\* The answer is yes beside a file that differs in one byte.
C4_Witness ==
    \E p \in Procs :
        /\ pc[p] = "delete_duplicate"
        /\ fs[log_file[p]].content = DupA
        /\ \E q \in C4_Others(p) : fs[q].content = DupB /\ fs[q].readable

\* The lines of the model that match the marker, with their cells.
C5_HeaderCells ==
    (LHdr :> << <<"Start Date/Time">>, <<"Log ID">>, <<"Created Pages">> >>)
    @@ (LHdrQ :> << <<"START DATE/TIME">>, <<"LOG ID">>, <<"Created Pages">> >>)
    @@ (LHdrW :> << <<"Start Date/Time">>, <<SP, "Log ID">>, <<"Status">> >>)
    @@ (LMarker :> << <<"Start Date/Time">> >>)

\* The data lines of the model whose first cell is empty or that hold
\* several cells, with their cells.
C5_Cells ==
    (R1 :> << <<T1>>, <<"100">>, <<"5">> >>)
    @@ (R2 :> << <<T2>>, <<>>, <<"abc">> >>)
    @@ (R8 :> << <<"100">>, <<T1>>, <<"5">> >>)
    @@ (K1 :> << <<>>, <<"200">>, <<"7">> >>)
    @@ (K2 :> << <<>>, <<"300">>, <<>> >>)
    @@ (LHdr8 :> << <<"LogID">>, <<"Start Date/Time">>, <<"Created Pages">> >>)

C5_HasMarker(content) == \E i \in 1..Len(content) : content[i] \in DOMAIN C5_HeaderCells

C5_MarkerAt(content) ==
    CHOOSE i \in 1..Len(content) :
        /\ content[i] \in DOMAIN C5_HeaderCells
        /\ \A j \in 1..(i - 1) : content[j] \notin DOMAIN C5_HeaderCells

\* The lines after the marker line.
C5_After(content) == SubSeq(content, C5_MarkerAt(content) + 1, Len(content))

\* The export's rows are start rows of several cells and continuation rows,
\* blank lines and footers aside.
C5_Applies(content) ==
    /\ C5_HasMarker(content)
    /\ \A i \in 1..Len(C5_After(content)) :
          C5_After(content)[i] \in DOMAIN C5_Cells \cup {BL, FT}

C5_Rows(content) ==
    LET data == SelectSeq(C5_After(content), LAMBDA l : l \in DOMAIN C5_Cells) IN
    [i \in 1..Len(data) |-> C5_Cells[data[i]]]

RECURSIVE C5_Groups(_, _, _)
\* The rows of each logical event: a start row and the continuation rows
\* after it.
C5_Groups(rows, i, groups) ==
    IF i > Len(rows) THEN groups
    ELSE IF rows[i][1] # <<>> THEN C5_Groups(rows, i + 1, Append(groups, <<rows[i]>>))
    ELSE IF groups = <<>> THEN C5_Groups(rows, i + 1, groups)
    ELSE C5_Groups(rows, i + 1,
                   [groups EXCEPT ![Len(groups)] = Append(@, rows[i])])

\* The first non-empty value at column n of the group's rows, in order.
C5_FirstNonEmpty(group, n) ==
    LET holds == {j \in 1..Len(group) : Len(group[j]) >= n /\ group[j][n] # <<>>} IN
    IF holds = {}
    THEN IF Len(group[1]) >= n THEN Str(<<>>) ELSE Null
    ELSE Str(group[CHOOSE j \in holds : \A m \in holds : j <= m][n])

C5_Record(group, header, printer_name) ==
    [c \in Columns |->
        IF c = "PrinterName" THEN Str(printer_name)
        ELSE IF \E n \in 1..Len(header) : header[n] = rename_map[c]
        THEN C5_FirstNonEmpty(group, CHOOSE n \in 1..Len(header) : header[n] = rename_map[c])
        ELSE Null]

C5_ExpectedBatch(content, printer_name) ==
    LET groups == C5_Groups(C5_Rows(content), 1, <<>>)
        header == C5_HeaderCells[content[C5_MarkerAt(content)]] IN
    [g \in 1..Len(groups) |-> C5_Record(groups[g], header, printer_name)]

C5_Parsed(p) == pc[p] \in {"merge", "delete_empty"}

(* C5: an event of a start row followed by continuation rows gives exactly *)
(* one record, and each field of it holds the first non-empty value at its *)
(* column, over the start row and then the continuation rows in order.     *)
C5_FirstValueWins ==
    \A p \in Procs :
        (C5_Parsed(p) /\ C5_Applies(fs[log_file[p]].content)) =>
            parsed_df[p] = C5_ExpectedBatch(fs[log_file[p]].content, PrinterId(idx[p]))

\* One event over three rows: the second continuation row's Log ID is
\* discarded, the first one's page count too.
C5_Witness ==
    \E p \in Procs :
        /\ C5_Parsed(p)
        /\ fs[log_file[p]].content = <<LPre, LHdr, R2, K1, K2>>
        /\ Len(parsed_df[p]) = 1
        /\ parsed_df[p][1]["LogID"] = Str(<<"200">>)
        /\ parsed_df[p][1]["CreatedPages"] = Str(<<"abc">>)

(* C6: an export with no marker line, or with no data row after the marker *)
(* line, parses to the empty batch and raises nothing.                     *)
C6_NoRows(content) ==
    \/ ~C5_HasMarker(content)
    \/ \A i \in 1..Len(C5_After(content)) : C5_After(content)[i] \in {BL, FT}

C6_EmptyNotError ==
    \A p \in Procs :
        (pc[p] \in {"merge", "delete_empty", "crashed"} /\ C6_NoRows(fs[log_file[p]].content)) =>
            pc[p] = "delete_empty" /\ parsed_df[p] = <<>>

\* An export with data rows and no marker line has parsed to the empty batch.
C6_Witness ==
    \E p \in Procs :
        /\ pc[p] = "delete_empty"
        /\ ~C5_HasMarker(fs[log_file[p]].content)
        /\ R1 \in Range(fs[log_file[p]].content)

(* C8 (as claimed): the export of a marker line, the header row            *)
(* LogID,Start Date/Time,..., one full row of LogID 100 and a footer       *)
(* parses to one record, of LogID 100.                                     *)
C8_Original ==
    \A p \in Procs :
        (C5_Parsed(p) /\ fs[log_file[p]].content = <<LMarker, LHdr8, R8, FT>>) =>
            Len(parsed_df[p]) = 1 /\ parsed_df[p][1]["LogID"] = Str(<<"100">>)

(* C8 (amended): the export whose header row is the marker line itself,    *)
(* Start Date/Time,Log ID,..., followed by one full row of Log ID 100 and  *)
(* a footer, parses to one record, of LogID 100; the footer gives none.    *)
C8_Scenario(p) == C5_Parsed(p) /\ fs[log_file[p]].content = <<LPre, LHdr, R1, FT>>

C8_Amended ==
    \A p \in Procs :
        C8_Scenario(p) =>
            /\ Len(parsed_df[p]) = 1
            /\ parsed_df[p][1]["LogID"] = Str(<<"100">>)
            /\ parsed_df[p][1]["StartDateTime"] = Str(<<T1>>)

C8_Witness == \E p \in Procs : C8_Scenario(p) /\ pc[p] = "merge"

(* C7 (as claimed): the normalization never raises; the batch staged is    *)
(* the parsed batch's records whose LogID, PrinterName and StartDateTime   *)
(* are present, and each page or paper count of a staged record is the     *)
(* integer its text denotes, or null when the text is no integer.          *)
C7_IsIntegerText(x) == x.k = "str" /\ Len(x.v) = 1 /\ x.v[1] \in DigitWords

C7_Expected(row) ==
    [c \in Columns |->
        IF c \in NumericColumns
        THEN IF C7_IsIntegerText(row[c]) THEN Int64(row[c].v) ELSE Null
        ELSE IF c \in DatetimeColumns THEN ToDatetime(row[c])
        ELSE row[c]]

C7_Storable(row) ==
    row["LogID"] # Null /\ row["PrinterName"] # Null /\ ToDatetime(row["StartDateTime"]) # Null

C7_ExpectedStaged(batch) ==
    LET kept == SelectSeq(batch, C7_Storable) IN
    [i \in 1..Len(kept) |-> C7_Expected(kept[i])]

C7_NonIntegerBecomesNull ==
    \A p \in Procs :
        /\ call[p].failed # "astype"
        /\ pc[p] = "read_sql" => staging[staging_table[p]] = C7_ExpectedStaged(call[p].batch)

(* C9 (as claimed): when main is done with a printer, a failed download    *)
(* has led to no delete, parse or merge, and a download that succeeded has *)
(* ended in one of four ways: a duplicate, deleted and neither parsed nor  *)
(* merged; an empty batch, deleted and not merged; a merge that returned   *)
(* 0 or more, deleted; a merge that returned -1, the file kept.            *)
C9_Pipeline == <<"download", "is_duplicate", "parse", "merge", "merge_return", "safe_delete">>

C9_FileKept(p) == log_file[p] \in DOMAIN fs

C9_Disposition(p) ==
    IF log_file[p] = None THEN trace[p] = <<"download">>
    ELSE \/ trace[p] = <<"download", "is_duplicate", "safe_delete">> /\ ~C9_FileKept(p)
         \/ /\ trace[p] = <<"download", "is_duplicate", "parse", "safe_delete">>
            /\ parsed_df[p] = <<>> /\ ~C9_FileKept(p)
         \/ trace[p] = C9_Pipeline /\ new_rows[p] >= 0 /\ ~C9_FileKept(p)
         \/ trace[p] = SubSeq(C9_Pipeline, 1, 5) /\ new_rows[p] = -1 /\ C9_FileKept(p)

C9_FourDispositions ==
    \A p \in Procs :
        (pc[p] \in {"next", "crashed"} /\ trace[p] # <<>>) => C9_Disposition(p)

(* C10: in a run, a file that has reached the merge is not passed to       *)
(* safe_delete before the merge has returned, and no path is passed to     *)
(* safe_delete twice.                                                      *)
C10_MergeRunning(p) ==
    pc[p] \in {"merge", "connect", "begin", "to_sql_staging", "read_sql", "to_sql_main",
               "commit", "rollback", "finally"}

C10_DeleteAfterOutcome ==
    \A p \in Procs :
        /\ \A i, j \in 1..Len(deleted[p]) : i # j => deleted[p][i] # deleted[p][j]
        /\ C10_MergeRunning(p) => log_file[p] \notin Range(deleted[p])
        /\ \A i \in 1..Len(trace[p]) :
              (trace[p][i] = "safe_delete" /\ "merge" \in Range(trace[p])) =>
                  \E j, k \in 1..(i - 1) :
                      j < k /\ trace[p][j] = "merge" /\ trace[p][k] = "merge_return"

\* Two files were deleted in one run, the second after its merge returned.
C10_Witness ==
    \E p \in Procs : trace[p] = C9_Pipeline /\ Len(deleted[p]) = 2 /\ pc[p] = "next"

(* C11 (as claimed): a failure of the store during a merge (the            *)
(* connection, the transaction's begin, the staging, the difference query, *)
(* the append, the commit, the drop of the staging table) never leaves the *)
(* merge as an exception: the merge returns, and the run goes on to the    *)
(* printers that remain.                                                   *)
C11_StoreSteps ==
    {"connect", "begin", "to_sql_staging", "read_sql", "to_sql_main", "commit", "drop"}

C11_FailureIsolated ==
    \A p \in Procs :
        call[p].failed \in C11_StoreSteps =>
            call[p].state # "raised" /\ pc[p] # "crashed"

(* C12 (as claimed): no export is parsed for a printer when an export of   *)
(* the same bytes was parsed for that printer in an earlier run: the later *)
(* run finds it a duplicate.  A run parses one export for each printer.    *)
C12_NotReprocessed ==
    \A i, j \in 1..Len(processed) : i # j => processed[i] # processed[j]

(* C13 (as claimed): two instances that are both between the naming of     *)
(* their staging table and the end of their merge never hold the same      *)
(* staging-table name.                                                     *)
C13_InMerge(p) ==
    pc[p] \in {"connect", "begin", "to_sql_staging", "read_sql", "to_sql_main", "commit",
               "rollback", "finally"}

C13_DistinctStaging ==
    \A p, q \in Procs :
        (p # q /\ C13_InMerge(p) /\ C13_InMerge(q)) => staging_table[p] # staging_table[q]

(* C14: once the merge has returned, with rows inserted, with none, or     *)
(* with -1 after a failure of the staging, the difference query, the       *)
(* append or the commit, the staging table it named is not in the store.   *)
C14_StagingGone ==
    \A p \in Procs : call[p].state = "returned" => staging_table[p] \notin DOMAIN staging

\* The merge staged its batch, failed at the commit and has returned -1.
C14_Witness ==
    \E p \in Procs :
        /\ pc[p] = "after_merge"
        /\ call[p].state = "returned" /\ call[p].failed = "commit" /\ call[p].ret = -1
        /\ staging_table[p] \notin DOMAIN staging

(* C15 (as claimed): when the merge of a printer's export has returned -1  *)
(* and no acquisition and no store operation has failed since, a later run *)
(* that is done with that printer leaves every storable event of the       *)
(* retained export in the main table.                                      *)
C15_Storable(content, i) == Normalize(ParseLines(content, PrinterId(i)))

C15_LaterRunDone(p, q) ==
    /\ pc[p] = "next"
    /\ log_file[p] # None /\ log_file[p] # q
    /\ q \in DOMAIN fs /\ q[1] = DownloadDir(idx[p])

C15_RetainedMerged ==
    \A p \in Procs : \A q \in retained :
        C15_LaterRunDone(p, q) =>
            \A r \in Range(C15_Storable(fs[q].content, idx[p])) :
                \E j \in 1..Len(mainTable) : Key(mainTable[j]) = Key(r)

(* C16 (as claimed): the parser returns one record for each row after the  *)
(* header row whose first column is not empty, whatever the row's length,  *)
(* the last one included.                                                  *)
C16_DataRows(content) ==
    Tail(CsvReader(JoinLines(CsvLinesFrom(content, C5_MarkerAt(content)))))

C16_StartsEvent(row) == Len(row) >= 1 /\ row[1] # <<>>

C16_OneRecordPerStartRow ==
    \A p \in Procs :
        (C5_Parsed(p) /\ C5_HasMarker(fs[log_file[p]].content)) =>
            Len(parsed_df[p]) = Len(SelectSeq(C16_DataRows(fs[log_file[p]].content), C16_StartsEvent))

(* C17 (as claimed): a canonical field is null in every record exactly     *)
(* when no header column has its name, names compared without regard to    *)
(* letter case and to leading and trailing whitespace.                     *)
C17_Norm(cell) == Lower(Strip(cell))

C17_Matched(header, c) ==
    \E n \in 1..Len(header) : C17_Norm(header[n]) = C17_Norm(rename_map[c])

C17_NormalizedMatching ==
    \A p \in Procs :
        (C5_Parsed(p) /\ C5_Applies(fs[log_file[p]].content) /\ parsed_df[p] # <<>>) =>
            LET content == fs[log_file[p]].content
                header == C5_HeaderCells[content[C5_MarkerAt(content)]] IN
            \A c \in DOMAIN rename_map :
                (\A i \in 1..Len(parsed_df[p]) : parsed_df[p][i][c] = Null)
                    <=> ~C17_Matched(header, c)

(* C18: after a merge in which nothing fails, the main table is what it    *)
(* was before, followed by the records of the normalized batch whose key   *)
(* (LogID, PrinterName, StartDateTime) no row of the main table had, and   *)
(* the merge returns the number of rows it appended.                       *)
C18_NoFailure(p) == call[p].state = "returned" /\ call[p].failed = "none"

C18_KeyIn(mt, r) ==
    \E j \in 1..Len(mt) :
        /\ mt[j]["LogID"] = r["LogID"]
        /\ mt[j]["PrinterName"] = r["PrinterName"]
        /\ mt[j]["StartDateTime"] = r["StartDateTime"]

C18_NewRecords(p) ==
    SelectSeq(Normalize(call[p].batch), LAMBDA r : ~C18_KeyIn(call[p].before, r))

C18_ExactDifference ==
    \A p \in Procs :
        C18_NoFailure(p) =>
            /\ call[p].after = call[p].before \o C18_NewRecords(p)
            /\ call[p].ret = Len(C18_NewRecords(p))
            /\ pc[p] = "after_merge" => mainTable = call[p].after

\* A merge into a main table that holds rows appended one record of its
\* batch and left out another, whose key the table had.
C18_Witness ==
    \E p \in Procs :
        /\ C18_NoFailure(p) /\ pc[p] = "after_merge"
        /\ call[p].before # <<>>
        /\ call[p].ret > 0
        /\ call[p].ret < Len(Normalize(call[p].batch))

(* C19 (as claimed): every row of the main table has an identifier that is *)
(* neither missing nor empty, a printer name, and a start timestamp.       *)
C19_Present(x) == x # Null /\ x.v # <<>>

C19_KeyFieldsPresent ==
    \A i \in 1..Len(mainTable) :
        /\ C19_Present(mainTable[i]["LogID"])
        /\ C19_Present(mainTable[i]["PrinterName"])
        /\ mainTable[i]["StartDateTime"].k = "ts"

(* C20 (as claimed): a data row after the header row whose page-count      *)
(* field holds the words of the footer, "download completed", reaches the  *)
(* row parsing like any other line: it starts an event, and a record of    *)
(* the batch holds its value.                                              *)
C20_HasFooterPhraseRow(content) ==
    /\ C5_HasMarker(content)
    /\ content[C5_MarkerAt(content)] \in {LHdr, LHdrQ}
    /\ DF \in Range(C5_After(content))

C20_FooterPhraseRowKept ==
    \A p \in Procs :
        (C5_Parsed(p) /\ C20_HasFooterPhraseRow(fs[log_file[p]].content)) =>
            \E i \in 1..Len(parsed_df[p]) :
                parsed_df[p][i]["CreatedPages"] = Str(<<"download completed">>)

====
